---- MODULE Spec2Model ----
(***************************************************************************)
(* Export-job lifecycle (producer, work queue, worker) and the third-party *)
(* sync retry state machine of hy-aws.                                     *)
(***************************************************************************)
EXTENDS Integers, Sequences, FiniteSets, TLC

VARIABLES
    store,      \* export_jobs table: job_id -> item (attribute name -> value)
    putLog,     \* job_ids for which create_export_job put_item has succeeded
    queue,      \* export-jobs-queue: job_id -> [body, state, receiveCount]
    blob,       \* reports bucket: object key -> file content
    nextId,     \* next fresh uuid
    now,        \* wall clock
    prod,       \* the create_export_job invocation
    wk,         \* the process_export_job invocation and its event source batch
    sfn,        \* the ThirdPartySyncStateMachine execution
    trig,       \* the last trigger_sync response
    rd,         \* the last get_export_job request and response
    wk2,        \* a second worker invocation, running at the same time as wk
    orders,     \* orders table: order_id -> item
    ow          \* the process_order invocation

vars == <<store, putLog, queue, blob, nextId, now, prod, wk, sfn, trig, rd, wk2,
          orders, ow>>

\* ---------------------------------------------------------------- bounds
MaxJobs == 2
MaxNow == 2

\* ------------------------------------------------------ program constants
MaxReceiveCount == 3
BatchSize == 10
RetryLimit == 4

None == "None"

\* str(e) of a failed service call
ClientError == "ClientError"

\* dict.get(key, default)
Get(d, k, default) == IF k \in DOMAIN d THEN d[k] ELSE default

\* dict.update: the entries of upd override those of d
Update(d, upd) == upd @@ d

EmptyDict == <<>>

\* Python string order on timestamps, modelled as lexicographic order on
\* sequences of naturals ("2024-01-01" is a proper prefix of
\* "2024-01-01T10:00:00+00:00" and therefore smaller).
RECURSIVE StrLE(_, _)
StrLE(a, b) ==
    IF a = <<>> THEN TRUE
    ELSE IF b = <<>> THEN FALSE
    ELSE IF Head(a) < Head(b) THEN TRUE
    ELSE IF Head(a) > Head(b) THEN FALSE
    ELSE StrLE(Tail(a), Tail(b))

\* ------------------------------------------------------------ source data
UsersTableItems ==
    { [user_id |-> "u1", accountStatus |-> "active",   createdAt |-> <<1, 5>>],
      [user_id |-> "u2", accountStatus |-> "active",   createdAt |-> <<2, 0>>],
      [user_id |-> "u3", accountStatus |-> "inactive", createdAt |-> <<3, 7>>] }

OrdersTableItems ==
    { [order_id |-> "o1", user_id |-> "u1", status |-> "pending", createdAt |-> <<1, 9>>],
      [order_id |-> "o2", user_id |-> "u2", status |-> "shipped", createdAt |-> <<2, 3>>] }

export_users(filters) ==
    { it \in UsersTableItems :
        /\ ("status" \in DOMAIN filters => it.accountStatus = filters["status"])
        /\ ("start_date" \in DOMAIN filters => StrLE(filters["start_date"], it.createdAt))
        /\ ("end_date" \in DOMAIN filters => StrLE(it.createdAt, filters["end_date"])) }

export_orders(filters) ==
    { it \in OrdersTableItems :
        /\ ("status" \in DOMAIN filters => it.status = filters["status"])
        /\ ("start_date" \in DOMAIN filters => StrLE(filters["start_date"], it.createdAt))
        /\ ("end_date" \in DOMAIN filters => StrLE(it.createdAt, filters["end_date"]))
        /\ ("user_id" \in DOMAIN filters => it.user_id = filters["user_id"]) }

\* generate_csv: nothing at all for no data, else a header and one row per
\* item holding the columns of the export type ('' for a missing one)
generate_csv(data, export_type) ==
    LET fieldnames ==
            IF export_type = "users"
            THEN {"user_id", "userName", "email", "fullName", "phoneNumber",
                  "accountStatus", "createdAt", "updatedAt"}
            ELSE {"order_id", "user_id", "status", "total_amount",
                  "payment_method", "createdAt", "updatedAt"}
    IN  IF data = {} THEN [header |-> {}, rows |-> {}]
        ELSE [header |-> fieldnames,
              rows |-> { [key \in fieldnames |-> Get(item, key, "")] : item \in data }]

\* generate_json: the items as they are, without a header
generate_json(data) == [header |-> {}, rows |-> data]

\* ------------------------------------------------------------- job store
\* update_job_status leaving updatedAt as it is
update_job_status_no_stamp(tbl, job_id, status, kwargs) ==
    LET old == IF job_id \in DOMAIN tbl THEN tbl[job_id] ELSE [job_id |-> job_id]
        set == kwargs @@ [status |-> status]
    IN  (job_id :> Update(old, set)) @@ tbl

\* update_job_status applying the SET to every item of the table
update_job_status_all(tbl, job_id, status, kwargs) ==
    LET set == kwargs @@ [status |-> status, updatedAt |-> now]
    IN  [k \in DOMAIN tbl \cup {job_id} |->
            Update(IF k \in DOMAIN tbl THEN tbl[k] ELSE [job_id |-> k], set)]

\* update_job_status: SET of the given attributes on the item with this key;
\* update_item creates the item when the key is absent.
update_job_status(tbl, job_id, status, kwargs) ==
    LET old == IF job_id \in DOMAIN tbl THEN tbl[job_id] ELSE [job_id |-> job_id]
        set == kwargs @@ [status |-> status, updatedAt |-> now]
    IN  (job_id :> Update(old, set)) @@ tbl

\* --------------------------------------------------------------- producer
\* puts and sends count the put_item and send_message calls of the request
IdleProd == [pc |-> "idle", body |-> <<>>, job_id |-> 0, item |-> EmptyDict,
             statusCode |-> 0, puts |-> 0, sends |-> 0]

\* json.loads(event.get('body', '{}')): the event has no 'body' key (the
\* default '{}' is parsed), or its body is null (json.loads(None) raises
\* TypeError), or a text that is not JSON (JSONDecodeError), or a JSON object
json_loads_body(event) ==
    IF "body" \notin DOMAIN event THEN [ok |-> TRUE, value |-> EmptyDict]
    ELSE IF event.body.json \in {"null", "malformed"}
         THEN [ok |-> FALSE, value |-> EmptyDict]
    ELSE [ok |-> TRUE, value |-> event.body.value]

ValidExportTypes == {"users", "orders"}

\* create_export_job_begin with the store write left out: the handler goes
\* straight to the enqueue
create_export_job_begin_no_put(event) ==
    /\ prod.pc \in {"idle", "done"}
    /\ LET parsed == json_loads_body(event)
           body == parsed.value
           export_type == Get(body, "export_type", None)
           job_item == [job_id |-> nextId, export_type |-> export_type,
                        format |-> Get(body, "format", "csv"),
                        filters |-> Get(body, "filters", EmptyDict),
                        status |-> "pending", createdAt |-> now,
                        updatedAt |-> now, ttl |-> now + 30]
       IN  IF ~parsed.ok
           THEN /\ prod' = [IdleProd EXCEPT !.pc = "done", !.body = event,
                                            !.statusCode = 500]
                /\ UNCHANGED nextId
           ELSE IF export_type \notin ValidExportTypes
           THEN /\ prod' = [IdleProd EXCEPT !.pc = "done", !.body = event,
                                            !.statusCode = 400]
                /\ UNCHANGED nextId
           ELSE /\ nextId <= MaxJobs
                /\ prod' = [pc |-> "send", body |-> event, job_id |-> nextId,
                            item |-> job_item, statusCode |-> 0,
                            puts |-> 0, sends |-> 0]
                /\ nextId' = nextId + 1
    /\ UNCHANGED <<store, putLog, queue, blob, now, wk, sfn, trig, rd, wk2, orders, ow>>

\* lines 32-72: parse, validate, build the job item
create_export_job_begin(event) ==
    /\ prod.pc \in {"idle", "done"}
    /\ LET parsed == json_loads_body(event)
           body == parsed.value
           export_type == Get(body, "export_type", None)
           filters == Get(body, "filters", EmptyDict)
           export_format == Get(body, "format", "csv")
           user_id == Get(body, "user_id", None)
           job_item == [job_id |-> nextId, export_type |-> export_type,
                        format |-> export_format, filters |-> filters,
                        status |-> "pending", createdAt |-> now,
                        updatedAt |-> now, ttl |-> now + 30]
       IN  IF ~parsed.ok
           THEN /\ prod' = [IdleProd EXCEPT !.pc = "done", !.body = event,
                                            !.statusCode = 500]
                /\ UNCHANGED nextId
           ELSE IF export_type \notin ValidExportTypes
           THEN /\ prod' = [IdleProd EXCEPT !.pc = "done", !.body = event,
                                            !.statusCode = 400]
                /\ UNCHANGED nextId
           ELSE /\ nextId <= MaxJobs
                /\ prod' = [pc |-> "put", body |-> event, job_id |-> nextId,
                            item |-> IF user_id \notin {None, ""}
                                     THEN job_item @@ [user_id |-> user_id]
                                     ELSE job_item,
                            statusCode |-> 0, puts |-> 0, sends |-> 0]
                /\ nextId' = nextId + 1
    /\ UNCHANGED <<store, putLog, queue, blob, now, wk, sfn, trig, rd, wk2, orders, ow>>

\* lines 78-88: the message, as the queue holds it once sent
SentMessage(item) ==
    [body |-> [job_id |-> item.job_id, export_type |-> item.export_type,
               format |-> item.format, filters |-> item.filters],
     state |-> "visible", receiveCount |-> 0]

\* create_export_job_put_item with the error of put_item swallowed: the
\* handler carries on to the enqueue
create_export_job_put_item_swallow(ok) ==
    /\ prod.pc = "put"
    /\ IF ok
       THEN /\ store' = (prod.job_id :> prod.item) @@ store
            /\ putLog' = putLog \cup {prod.job_id}
       ELSE UNCHANGED <<store, putLog, orders, ow>>
    /\ prod' = [prod EXCEPT !.pc = "send", !.puts = @ + 1]
    /\ UNCHANGED <<queue, blob, nextId, now, wk, sfn, trig, rd, wk2, orders, ow>>

\* line 75: jobs_table.put_item(Item=job_item); an error is answered with 500
create_export_job_put_item(ok) ==
    /\ prod.pc = "put"
    /\ IF ok
       THEN /\ store' = (prod.job_id :> prod.item) @@ store
            /\ putLog' = putLog \cup {prod.job_id}
            /\ prod' = [prod EXCEPT !.pc = "send", !.puts = @ + 1]
       ELSE /\ prod' = [prod EXCEPT !.pc = "done", !.statusCode = 500,
                                  !.puts = @ + 1]
            /\ UNCHANGED <<store, putLog, orders, ow>>
    /\ UNCHANGED <<queue, blob, nextId, now, wk, sfn, trig, rd, wk2, orders, ow>>

\* create_export_job_send_message with one more try after a failed send
create_export_job_send_message_retry(ok) ==
    /\ prod.pc = "send"
    /\ IF ok
       THEN /\ queue' = (prod.job_id :> SentMessage(prod.item)) @@ queue
            /\ prod' = [prod EXCEPT !.pc = "done", !.statusCode = 202,
                                    !.sends = @ + 1]
       ELSE /\ prod' = IF prod.sends = 0
                       THEN [prod EXCEPT !.sends = @ + 1]
                       ELSE [prod EXCEPT !.pc = "done", !.statusCode = 500,
                                         !.sends = @ + 1]
            /\ UNCHANGED queue
    /\ UNCHANGED <<store, putLog, blob, nextId, now, wk, sfn, trig, rd, wk2, orders, ow>>

\* lines 78-114: sqs.send_message, then the 202 response; an error is
\* answered with 500
create_export_job_send_message(ok) ==
    /\ prod.pc = "send"
    /\ IF ok
       THEN /\ queue' = (prod.job_id :> SentMessage(prod.item)) @@ queue
            /\ prod' = [prod EXCEPT !.pc = "done", !.statusCode = 202,
                                    !.sends = @ + 1]
       ELSE /\ prod' = [prod EXCEPT !.pc = "done", !.statusCode = 500,
                                  !.sends = @ + 1]
            /\ UNCHANGED queue
    /\ UNCHANGED <<store, putLog, blob, nextId, now, wk, sfn, trig, rd, wk2, orders, ow>>

\* ---------------------------------------------------------------- events
ObjBody(o) == [body |-> [json |-> "object", value |-> o]]

CreateEvents ==
    { <<>>,
      [body |-> [json |-> "null"]],
      ObjBody(EmptyDict),
      ObjBody([export_type |-> "bogus"]),
      ObjBody([export_type |-> "users"]),
      ObjBody([export_type |-> "orders", format |-> "json", user_id |-> "u1",
               filters |-> [start_date |-> <<2>>]]) }

\* ------------------------------------------------------------ work queue
\* SqsEventSource(export_jobs_queue, batch_size=10): the poller receives up
\* to batch_size messages that are visible and below the redrive threshold,
\* in any order; each receive counts towards max_receive_count
RECURSIVE DistinctSeqs(_, _)
DistinctSeqs(S, n) ==
    IF n = 0 \/ S = {} THEN {<<>>}
    ELSE {<<>>} \cup UNION { { <<x>> \o t : t \in DistinctSeqs(S \ {x}, n - 1) } : x \in S }

\* Receivable without the redrive threshold
Receivable_unbounded ==
    { j \in DOMAIN queue : queue[j].state = "visible" }

Receivable ==
    { j \in DOMAIN queue : /\ queue[j].state = "visible"
                           /\ queue[j].receiveCount < MaxReceiveCount }

Range(s) == { s[k] : k \in DOMAIN s }

\* ----------------------------------------------------------------- worker
IdleWk == [pc |-> "idle", batch |-> <<>>, i |-> 0, s3_key |-> <<>>,
           record_count |-> 0, error |-> ""]

sqs_receive_batch(batch) ==
    /\ wk.pc = "idle"
    /\ batch # <<>>
    /\ queue' = [j \in DOMAIN queue |->
                    IF j \in Range(batch)
                    THEN [queue[j] EXCEPT !.state = "inflight",
                                          !.receiveCount = @ + 1]
                    ELSE queue[j]]
    /\ wk' = [IdleWk EXCEPT !.pc = "item", !.batch = batch, !.i = 1]
    /\ UNCHANGED <<store, putLog, blob, nextId, now, prod, sfn, trig, rd, wk2, orders, ow>>

\* sqs_dead_letter that also marks the job of the message as failed
sqs_dead_letter_fails_job(j) ==
    /\ j \in DOMAIN queue
    /\ queue[j].state = "visible"
    /\ queue[j].receiveCount >= MaxReceiveCount
    /\ queue' = [queue EXCEPT ![j].state = "dlq"]
    /\ store' = update_job_status(store, j, "failed", EmptyDict)
    /\ UNCHANGED <<putLog, blob, nextId, now, prod, wk, sfn, trig, rd, wk2, orders, ow>>

\* DeadLetterQueue(max_receive_count=3): a message received max_receive_count
\* times and visible again is moved to the dead-letter queue
sqs_dead_letter(j) ==
    /\ j \in DOMAIN queue
    /\ queue[j].state = "visible"
    /\ queue[j].receiveCount >= MaxReceiveCount
    /\ queue' = [queue EXCEPT ![j].state = "dlq"]
    /\ UNCHANGED <<store, putLog, blob, nextId, now, prod, wk, sfn, trig, rd, wk2, orders, ow>>

message_body == queue[wk.batch[wk.i]].body

\* process_export_job_begin_item without update_job_status(job_id,
\* 'processing')
process_export_job_begin_item_no_write(ok) ==
    /\ wk.pc = "item"
    /\ wk' = [wk EXCEPT !.pc = IF ok THEN "export" ELSE "raised"]
    /\ UNCHANGED <<store, putLog, queue, blob, nextId, now, prod, sfn, trig, rd, wk2, orders, ow>>

\* lines 30-40: the next record of the batch; update_job_status(job_id,
\* 'processing') is outside the inner try, so its failure ends the invocation
process_export_job_begin_item(ok) ==
    /\ wk.pc = "item"
    /\ IF ok
       THEN /\ store' = update_job_status(store, message_body.job_id,
                                          "processing", EmptyDict)
            /\ wk' = [wk EXCEPT !.pc = "export"]
       ELSE /\ wk' = [wk EXCEPT !.pc = "raised"]
            /\ UNCHANGED store
    /\ UNCHANGED <<putLog, queue, blob, nextId, now, prod, sfn, trig, rd, wk2, orders, ow>>

\* lines 42-73: scan, serialize, upload, presign
\*   outcome "ok": all four succeed
\*   outcome "error": the scan, the serialization or put_object raises
process_export_job_export(outcome) ==
    /\ wk.pc = "export"
    /\ LET export_type == message_body.export_type
           export_format == Get(message_body, "format", "csv")
           filters == Get(message_body, "filters", EmptyDict)
           data == IF export_type = "users" THEN export_users(filters)
                   ELSE export_orders(filters)
           file_content == IF export_format = "csv"
                           THEN generate_csv(data, export_type)
                           ELSE generate_json(data)
           file_extension == IF export_format = "csv" THEN "csv" ELSE "json"
           s3_key == <<"exports", export_type, message_body.job_id, now,
                       file_extension>>
       IN  IF export_type \notin {"users", "orders"}
           THEN /\ wk' = [wk EXCEPT !.pc = "except",
                                    !.error = "Unknown export type"]
                /\ UNCHANGED blob
           ELSE IF outcome = "error"
           THEN /\ wk' = [wk EXCEPT !.pc = "except", !.error = ClientError]
                /\ UNCHANGED blob
           ELSE /\ wk' = [wk EXCEPT !.pc = "complete", !.s3_key = s3_key,
                                    !.record_count = Cardinality(data)]
                /\ blob' = (s3_key :> file_content) @@ blob
    /\ UNCHANGED <<store, putLog, queue, nextId, now, prod, sfn, trig, rd, wk2, orders, ow>>

\* process_export_job_completed with a conditional write: a job already
\* completed or failed is not written again
process_export_job_completed_keep_terminal(ok) ==
    /\ wk.pc = "complete"
    /\ IF ok
       THEN /\ store' = IF store[message_body.job_id]["status"]
                            \in {"completed", "failed"}
                         THEN store
                         ELSE update_job_status(store, message_body.job_id,
                                  "completed",
                                  [s3_key |-> wk.s3_key,
                                   download_url |-> <<"presigned", wk.s3_key>>,
                                   record_count |-> wk.record_count])
            /\ wk' = IF wk.i < Len(wk.batch)
                     THEN [IdleWk EXCEPT !.pc = "item", !.batch = wk.batch,
                                         !.i = wk.i + 1]
                     ELSE [IdleWk EXCEPT !.pc = "returned", !.batch = wk.batch,
                                         !.i = wk.i]
       ELSE /\ wk' = [wk EXCEPT !.pc = "except", !.error = ClientError]
            /\ UNCHANGED store
    /\ UNCHANGED <<putLog, queue, blob, nextId, now, prod, sfn, trig, rd, wk2, orders, ow>>

\* lines 75-83 and the loop / return of lines 30, 90
process_export_job_completed(ok) ==
    /\ wk.pc = "complete"
    /\ IF ok
       THEN /\ store' = update_job_status(store, message_body.job_id, "completed",
                            [s3_key |-> wk.s3_key,
                             download_url |-> <<"presigned", wk.s3_key>>,
                             record_count |-> wk.record_count])
            /\ wk' = IF wk.i < Len(wk.batch)
                     THEN [IdleWk EXCEPT !.pc = "item", !.batch = wk.batch,
                                         !.i = wk.i + 1]
                     ELSE [IdleWk EXCEPT !.pc = "returned", !.batch = wk.batch,
                                         !.i = wk.i]
       ELSE /\ wk' = [wk EXCEPT !.pc = "except", !.error = ClientError]
            /\ UNCHANGED store
    /\ UNCHANGED <<putLog, queue, blob, nextId, now, prod, sfn, trig, rd, wk2, orders, ow>>

\* process_export_job_except without the raise: the failure is recorded and
\* the handler returns normally
process_export_job_except_swallow(ok) ==
    /\ wk.pc = "except"
    /\ IF ok
       THEN store' = update_job_status(store, message_body.job_id, "failed",
                                       [error_message |-> wk.error])
       ELSE UNCHANGED store
    /\ wk' = [wk EXCEPT !.pc = "returned"]
    /\ UNCHANGED <<putLog, queue, blob, nextId, now, prod, sfn, trig, rd, wk2, orders, ow>>

\* lines 85-94: update_job_status(job_id, 'failed', error_message=str(e)),
\* then raise; the outer handler re-raises, which ends the invocation
process_export_job_except(ok) ==
    /\ wk.pc = "except"
    /\ IF ok
       THEN store' = update_job_status(store, message_body.job_id, "failed",
                                       [error_message |-> wk.error])
       ELSE UNCHANGED store
    /\ wk' = [wk EXCEPT !.pc = "raised"]
    /\ UNCHANGED <<putLog, queue, blob, nextId, now, prod, sfn, trig, rd, wk2, orders, ow>>

\* The event source mapping after the invocation: a response without
\* batchItemFailures deletes the whole batch; a raised invocation deletes
\* nothing and the whole batch becomes visible again.
sqs_event_source_finish ==
    /\ wk.pc \in {"returned", "raised"}
    /\ IF wk.pc = "returned"
       THEN /\ queue' = [j \in DOMAIN queue \ Range(wk.batch) |-> queue[j]]
            /\ wk' = IdleWk
       ELSE /\ queue' = [j \in DOMAIN queue |->
                           IF j \in Range(wk.batch)
                           THEN [queue[j] EXCEPT !.state = "visible"]
                           ELSE queue[j]]
            /\ wk' = IdleWk
    /\ UNCHANGED <<store, putLog, blob, nextId, now, prod, sfn, trig, rd, wk2, orders, ow>>

\* ------------------------------------------------------------ order worker
MaxRecords == 2

\* the orders table when the batch arrives
OrdersTable ==
    [o \in {"o1", "o2"} |->
        [order_id |-> o, user_id |-> "u1", items |-> <<"i1">>, total |-> 10,
         status |-> "PENDING", updatedAt |-> 0]]

IdleOw == [pc |-> "idle", Records |-> <<>>, i |-> 0, failed_items |-> <<>>,
           log |-> <<>>, response |-> EmptyDict]

\* lines 14-97: process_single_order(order_id) -> (success, error_message)
\* and the table it leaves
\*   fault: the call that raises ("none", "get_item", "update_processing",
\*          "payment" for the simulated gateway timeout, "update_completed")
\*   failed_ok: whether the update to FAILED in the except block succeeds
process_single_order(tbl, order_id, fault, failed_ok) ==
    LET failed(t, error_msg) ==
            [success |-> FALSE, error |-> error_msg,
             table |-> IF failed_ok
                       THEN (order_id :>
                               ([status |-> "FAILED", updatedAt |-> now,
                                 errorMessage |-> error_msg]
                                @@ Get(t, order_id, [order_id |-> order_id])))
                            @@ t
                       ELSE t]
        processing ==
            [tbl EXCEPT ![order_id] =
                [status |-> "PROCESSING", updatedAt |-> now] @@ @]
        completed ==
            [processing EXCEPT ![order_id] =
                [status |-> "COMPLETED", updatedAt |-> now,
                 processedAt |-> now] @@ @]
    IN  IF fault = "get_item" THEN failed(tbl, ClientError)
        ELSE IF order_id \notin DOMAIN tbl
        THEN [success |-> FALSE, error |-> "Order not found", table |-> tbl]
        ELSE IF fault = "update_processing" THEN failed(tbl, ClientError)
        ELSE IF fault = "payment"
        THEN failed(processing, "Payment gateway timeout")
        ELSE IF fault = "update_completed" THEN failed(processing, ClientError)
        ELSE [success |-> TRUE, error |-> None, table |-> completed]

OrderFaults ==
    {"none", "get_item", "update_processing", "payment", "update_completed"}

\* SqsEventSource(orders_queue, batch_size=10): the invocation starts with a
\* batch of records
process_order_begin(Records) ==
    /\ ow.pc = "idle"
    /\ Records # <<>>
    /\ ow' = [IdleOw EXCEPT !.pc = "record", !.Records = Records, !.i = 1]
    /\ UNCHANGED <<store, putLog, queue, blob, nextId, now, prod, wk, sfn, trig,
                   rd, wk2, orders>>

\* process_order_record with a missing order taken as processed
process_order_record_not_found_ok(fault, failed_ok) ==
    /\ ow.pc = "record"
    /\ LET record == ow.Records[ow.i]
           parsed == json_loads_body(record)
           order_message == parsed.value
           raised == ~parsed.ok \/ "order_id" \notin DOMAIN order_message
           r == process_single_order(orders, order_message["order_id"], fault,
                                     failed_ok)
           failure == <<[itemIdentifier |-> record.messageId]>>
           more == IF ow.i < Len(ow.Records) THEN "record" ELSE "return"
       IN  IF raised
           THEN /\ ow' = [ow EXCEPT !.failed_items = @ \o failure,
                                    !.log = Append(@, "Error processing record"),
                                    !.i = @ + 1, !.pc = more]
                /\ UNCHANGED orders
           ELSE /\ orders' = r.table
                /\ ow' = [ow EXCEPT
                            !.failed_items =
                                IF r.success \/ r.error = "Order not found"
                                THEN @ ELSE @ \o failure,
                            !.log = Append(@, IF r.success THEN "completed"
                                              ELSE r.error),
                            !.i = @ + 1, !.pc = more]
    /\ UNCHANGED <<store, putLog, queue, blob, nextId, now, prod, wk, sfn, trig,
                   rd, wk2>>

\* lines 110-137: one turn of the loop over event['Records']; the log is
\* what the turn prints about the record's end
process_order_record(fault, failed_ok) ==
    /\ ow.pc = "record"
    /\ LET record == ow.Records[ow.i]
           parsed == json_loads_body(record)
           order_message == parsed.value
           raised == ~parsed.ok \/ "order_id" \notin DOMAIN order_message
           r == process_single_order(orders, order_message["order_id"], fault,
                                     failed_ok)
           failure == <<[itemIdentifier |-> record.messageId]>>
           more == IF ow.i < Len(ow.Records) THEN "record" ELSE "return"
       IN  IF raised
           THEN /\ ow' = [ow EXCEPT !.failed_items = @ \o failure,
                                    !.log = Append(@, "Error processing record"),
                                    !.i = @ + 1, !.pc = more]
                /\ UNCHANGED orders
           ELSE /\ orders' = r.table
                /\ ow' = [ow EXCEPT
                            !.failed_items =
                                IF r.success THEN @ ELSE @ \o failure,
                            !.log = Append(@, IF r.success THEN "completed"
                                              ELSE r.error),
                            !.i = @ + 1, !.pc = more]
    /\ UNCHANGED <<store, putLog, queue, blob, nextId, now, prod, wk, sfn, trig,
                   rd, wk2>>

\* lines 139-146: the partial batch response
process_order_return ==
    /\ ow.pc = "return"
    /\ ow' = [ow EXCEPT !.pc = "returned",
                        !.response = [batchItemFailures |-> ow.failed_items]]
    /\ UNCHANGED <<store, putLog, queue, blob, nextId, now, prod, wk, sfn, trig,
                   rd, wk2, orders>>

\* report_batch_item_failures=True: the event source takes the response and
\* the function is free for the next batch
sqs_orders_event_source_finish ==
    /\ ow.pc = "returned"
    /\ ow' = IdleOw
    /\ UNCHANGED <<store, putLog, queue, blob, nextId, now, prod, wk, sfn, trig,
                   rd, wk2, orders>>

\* record bodies: an order of the table, an order that is not in it, a
\* JSON object without order_id, a text that is not JSON
OrderBodies ==
    { [json |-> "object", value |-> [order_id |-> "o1"]],
      [json |-> "object", value |-> [order_id |-> "o9"]],
      [json |-> "object", value |-> EmptyDict],
      [json |-> "malformed"] }

\* batches of 1..MaxRecords records with message ids m1, m2, ...
OrderBatches ==
    UNION { { [k \in 1..n |-> [messageId |-> <<"m", k>>, body |-> b[k]]] :
              b \in [1..n -> OrderBodies] } : n \in 1..MaxRecords }

NextOrders ==
    \/ \E Records \in OrderBatches : process_order_begin(Records)
    \/ \E fault \in OrderFaults, failed_ok \in BOOLEAN :
          process_order_record(fault, failed_ok)
    \/ process_order_return
    \/ sqs_orders_event_source_finish

\* ---------------------------------------------------------- status reader
PageSize == 50

IdleRd == [event |-> <<>>, fault |-> FALSE, statusCode |-> 0, body |-> <<>>]

\* job_result handing out the stored item under the projected fields
job_result_whole(job) ==
    LET result == [job_id |-> job["job_id"],
                   export_type |-> job["export_type"],
                   format |-> Get(job, "format", "csv"),
                   status |-> job["status"],
                   createdAt |-> job["createdAt"],
                   updatedAt |-> job["updatedAt"]]
    IN  result @@ job

\* The projection of lines 80-98
job_result(job) ==
    LET result == [job_id |-> job["job_id"],
                   export_type |-> job["export_type"],
                   format |-> Get(job, "format", "csv"),
                   status |-> job["status"],
                   createdAt |-> job["createdAt"],
                   updatedAt |-> job["updatedAt"]]
        completed == IF job["status"] = "completed"
                     THEN [download_url |-> Get(job, "download_url", None),
                           record_count |-> Get(job, "record_count", 0),
                           s3_key |-> Get(job, "s3_key", None)]
                     ELSE <<>>
        failed == IF job["status"] = "failed"
                  THEN [error_message |-> Get(job, "error_message", "Unknown error")]
                  ELSE <<>>
    IN  failed @@ completed @@ result

\* job['job_id'], job['export_type'], ... raise KeyError on an item without them
HasKeys(job, keys) == keys \subseteq DOMAIN job

\* simplified_job with the error message added to a failed entry
simplified_job_with_error(job) ==
    LET simplified == [job_id |-> job["job_id"],
                       export_type |-> job["export_type"],
                       status |-> job["status"],
                       createdAt |-> job["createdAt"]]
    IN  IF job["status"] = "completed"
        THEN [download_url |-> Get(job, "download_url", None),
              record_count |-> Get(job, "record_count", 0)] @@ simplified
        ELSE IF job["status"] = "failed"
        THEN [error_message |-> Get(job, "error_message", "Unknown error")] @@ simplified
        ELSE simplified

\* The projection of lines 142-151
simplified_job(job) ==
    LET simplified == [job_id |-> job["job_id"],
                       export_type |-> job["export_type"],
                       status |-> job["status"],
                       createdAt |-> job["createdAt"]]
    IN  IF job["status"] = "completed"
        THEN [download_url |-> Get(job, "download_url", None),
              record_count |-> Get(job, "record_count", 0)] @@ simplified
        ELSE simplified

\* UserJobsIndex: partition key user_id, sort key createdAt; only the items
\* that have both attributes are in the index
UserJobsIndex(user_id) ==
    { j \in DOMAIN store : /\ HasKeys(store[j], {"user_id", "createdAt"})
                           /\ store[j]["user_id"] = user_id }

\* The orders in which the index holds the keys S: descending createdAt,
\* items of equal createdAt in any order (tb); each order is given as the
\* position of every key
IndexOrders(S) ==
    LET Tied == { y \in S : \E z \in S \ {y} :
                      store[z]["createdAt"] = store[y]["createdAt"] }
    IN  { [a \in S |->
             Cardinality({ b \in S :
                 \/ store[b]["createdAt"] > store[a]["createdAt"]
                 \/ /\ store[b]["createdAt"] = store[a]["createdAt"]
                    /\ \E i, j \in 1..Len(tb) : i < j /\ tb[i] = b /\ tb[j] = a }) + 1] :
          tb \in { p \in DistinctSeqs(Tied, Cardinality(Tied)) :
                     Len(p) = Cardinality(Tied) } }

\* query(IndexName='UserJobsIndex', ScanIndexForward=False, Limit=50): the
\* first PageSize keys of the partition
QueryResults(user_id) ==
    UNION { { [k \in 1..(IF Cardinality(S) < PageSize THEN Cardinality(S) ELSE PageSize)
                 |-> CHOOSE a \in S : position[a] = k] :
              position \in IndexOrders(S) } :
            S \in {UserJobsIndex(user_id)} }

\* list_user_jobs, lines 128-181
list_user_jobs(event, user_id, ok) ==
    IF ~ok
    THEN rd' = [event |-> event, fault |-> ~ok, statusCode |-> 500, body |-> <<>>]
    ELSE \E jobs \in QueryResults(user_id) :
            IF \E k \in 1..Len(jobs) :
                  ~HasKeys(store[jobs[k]], {"job_id", "export_type", "status", "createdAt"})
            THEN rd' = [event |-> event, fault |-> ~ok, statusCode |-> 500, body |-> <<>>]
            ELSE rd' = [event |-> event, fault |-> ~ok, statusCode |-> 200,
                        body |-> [jobs |-> [k \in 1..Len(jobs) |->
                                               simplified_job(store[jobs[k]])],
                                  count |-> Len(jobs)]]

\* get_export_job answering a lookup of an absent job with an empty 200
get_export_job_no_404(event, ok) ==
    /\ LET query_params == Get(event, "queryStringParameters", EmptyDict)
           user_id == Get(query_params, "user_id", None)
           path_params == Get(event, "pathParameters", EmptyDict)
           job_id == Get(path_params, "jobId", 0)
       IN  IF user_id \notin {None, ""}
           THEN list_user_jobs(event, user_id, ok)
           ELSE IF job_id = 0
           THEN rd' = [event |-> event, fault |-> FALSE, statusCode |-> 400, body |-> <<>>]
           ELSE IF ~ok
           THEN rd' = [event |-> event, fault |-> ~ok, statusCode |-> 500, body |-> <<>>]
           ELSE IF job_id \notin DOMAIN store
           THEN rd' = [event |-> event, fault |-> ~ok, statusCode |-> 200, body |-> <<>>]
           ELSE IF ~HasKeys(store[job_id], {"job_id", "export_type", "status",
                                            "createdAt", "updatedAt"})
           THEN rd' = [event |-> event, fault |-> ~ok, statusCode |-> 500, body |-> <<>>]
           ELSE rd' = [event |-> event, fault |-> ~ok, statusCode |-> 200,
                       body |-> job_result(store[job_id])]
    /\ UNCHANGED <<store, putLog, queue, blob, nextId, now, prod, wk, sfn, trig, wk2, orders, ow>>

\* get_export_job stamping the job it looked up with the time of the read
get_export_job_touch(event, ok) ==
    /\ LET query_params == Get(event, "queryStringParameters", EmptyDict)
           user_id == Get(query_params, "user_id", None)
           path_params == Get(event, "pathParameters", EmptyDict)
           job_id == Get(path_params, "jobId", 0)
       IN  IF user_id \notin {None, ""}
           THEN list_user_jobs(event, user_id, ok)
           ELSE IF job_id = 0
           THEN rd' = [event |-> event, fault |-> FALSE, statusCode |-> 400, body |-> <<>>]
           ELSE IF ~ok
           THEN rd' = [event |-> event, fault |-> ~ok, statusCode |-> 500, body |-> <<>>]
           ELSE IF job_id \notin DOMAIN store
           THEN rd' = [event |-> event, fault |-> ~ok, statusCode |-> 404, body |-> <<>>]
           ELSE IF ~HasKeys(store[job_id], {"job_id", "export_type", "status",
                                            "createdAt", "updatedAt"})
           THEN rd' = [event |-> event, fault |-> ~ok, statusCode |-> 500, body |-> <<>>]
           ELSE rd' = [event |-> event, fault |-> ~ok, statusCode |-> 200,
                       body |-> job_result(store[job_id])]
    /\ LET job_id == Get(Get(event, "pathParameters", EmptyDict), "jobId", 0)
       IN  store' = [j \in DOMAIN store |->
                        IF j = job_id THEN Update(store[j], [lastReadAt |-> now])
                        ELSE store[j]]
    /\ UNCHANGED <<putLog, queue, blob, nextId, now, prod, wk, sfn, trig, wk2, orders, ow>>

\* get_export_job.handler, lines 30-125; ok is whether the table call
\* (get_item or query) succeeds
get_export_job(event, ok) ==
    /\ LET query_params == Get(event, "queryStringParameters", EmptyDict)
           user_id == Get(query_params, "user_id", None)
           path_params == Get(event, "pathParameters", EmptyDict)
           job_id == Get(path_params, "jobId", 0)
       IN  IF user_id \notin {None, ""}
           THEN list_user_jobs(event, user_id, ok)
           ELSE IF job_id = 0
           THEN rd' = [event |-> event, fault |-> FALSE, statusCode |-> 400, body |-> <<>>]
           ELSE IF ~ok
           THEN rd' = [event |-> event, fault |-> ~ok, statusCode |-> 500, body |-> <<>>]
           ELSE IF job_id \notin DOMAIN store
           THEN rd' = [event |-> event, fault |-> ~ok, statusCode |-> 404, body |-> <<>>]
           ELSE IF ~HasKeys(store[job_id], {"job_id", "export_type", "status",
                                            "createdAt", "updatedAt"})
           THEN rd' = [event |-> event, fault |-> ~ok, statusCode |-> 500, body |-> <<>>]
           ELSE rd' = [event |-> event, fault |-> ~ok, statusCode |-> 200,
                       body |-> job_result(store[job_id])]
    /\ UNCHANGED <<store, putLog, queue, blob, nextId, now, prod, wk, sfn, trig, wk2, orders, ow>>

\* ------------------------------------------------------ retry orchestrator
IdleSfn == [state |-> "idle", input |-> <<>>, invocations |-> <<>>,
            path |-> <<>>]
IdleTrig == [statusCode |-> 0, params |-> <<>>]

valid_resources == {"posts", "users", "comments", "todos", "albums"}

\* int(text): a text of digits is its number, any other text raises ValueError
int(v) == IF "digits" \in DOMAIN v THEN [ok |-> TRUE, value |-> v.digits]
          ELSE [ok |-> FALSE, value |-> 0]

\* trigger_sync without the check of limit against 1..100
trigger_sync_no_range_check(params, started) ==
    /\ sfn.state \in {"idle", "SyncSucceeded", "MaxRetriesReached", "TaskFailed"}
    /\ LET resource_type == Get(params, "resource", "posts")
           limit == int(Get(params, "limit", [digits |-> 10]))
           execution_input == [resource_type |-> resource_type,
                               limit |-> limit.value, attempt |-> 1]
       IN  IF ~limit.ok
           THEN /\ trig' = [statusCode |-> 400, params |-> params]
                /\ UNCHANGED sfn
           ELSE IF resource_type \notin valid_resources
           THEN /\ trig' = [statusCode |-> 400, params |-> params]
                /\ UNCHANGED sfn
           ELSE IF ~started
           THEN /\ trig' = [statusCode |-> 500, params |-> params]
                /\ UNCHANGED sfn
           ELSE /\ trig' = [statusCode |-> 202, params |-> params]
                /\ sfn' = [state |-> "SyncThirdPartyTask",
                           input |-> execution_input,
                           invocations |-> <<>>,
                           path |-> <<"SyncThirdPartyTask">>]
    /\ UNCHANGED <<store, putLog, queue, blob, nextId, now, prod, wk, rd, wk2, orders, ow>>

\* trigger_sync.handler: params is queryStringParameters or {} ; started is
\* whether stepfunctions.start_execution succeeds
trigger_sync(params, started) ==
    /\ sfn.state \in {"idle", "SyncSucceeded", "MaxRetriesReached", "TaskFailed"}
    /\ LET resource_type == Get(params, "resource", "posts")
           limit == int(Get(params, "limit", [digits |-> 10]))
           execution_input == [resource_type |-> resource_type,
                               limit |-> limit.value, attempt |-> 1]
       IN  IF ~limit.ok
           THEN /\ trig' = [statusCode |-> 400, params |-> params]
                /\ UNCHANGED sfn
           ELSE IF resource_type \notin valid_resources
           THEN /\ trig' = [statusCode |-> 400, params |-> params]
                /\ UNCHANGED sfn
           ELSE IF limit.value < 1 \/ limit.value > 100
           THEN /\ trig' = [statusCode |-> 400, params |-> params]
                /\ UNCHANGED sfn
           ELSE IF ~started
           THEN /\ trig' = [statusCode |-> 500, params |-> params]
                /\ UNCHANGED sfn
           ELSE /\ trig' = [statusCode |-> 202, params |-> params]
                /\ sfn' = [state |-> "SyncThirdPartyTask",
                           input |-> execution_input,
                           invocations |-> <<>>,
                           path |-> <<"SyncThirdPartyTask">>]
    /\ UNCHANGED <<store, putLog, queue, blob, nextId, now, prod, wk, rd, wk2, orders, ow>>

\* sync_third_party_with_retry.handler: what it returns for an event and an
\* outcome of the API call and the table writes ("ValueError": the body of
\* the API response is not JSON, response.json() raises a ValueError)
sync_third_party_with_retry(event, outcome) ==
    LET attempt == Get(event, "attempt", 1)
        resource_type == Get(event, "resource_type", "posts")
    IN  IF resource_type \notin valid_resources \/ outcome = "ValueError"
        THEN [statusCode |-> 400, success |-> FALSE, error |-> "ValidationError",
              attempt |-> attempt, should_retry |-> FALSE]
        ELSE IF outcome = "ok"
        THEN [statusCode |-> 200, success |-> TRUE, error |-> "",
              attempt |-> attempt, should_retry |-> FALSE]
        ELSE IF outcome = "ThirdPartyAPIError"
        THEN [statusCode |-> 500, success |-> FALSE, error |-> "ThirdPartyAPIError",
              attempt |-> attempt, should_retry |-> TRUE]
        ELSE [statusCode |-> 500, success |-> FALSE, error |-> "UnexpectedError",
              attempt |-> attempt, should_retry |-> FALSE]

SyncOutcomes == {"ok", "ThirdPartyAPIError", "ValueError", "UnexpectedError"}

Enter(st) == Append(sfn.path, st)

\* sync_task = LambdaInvoke(payload = {resource_type, limit, attempt},
\* result_path = "$.syncResult", retry_on_service_exceptions = False);
\* invoked = FALSE is a failed invocation, which fails the execution
SyncThirdPartyTask(outcome, invoked) ==
    /\ sfn.state = "SyncThirdPartyTask"
    /\ LET payload == [resource_type |-> sfn.input.resource_type,
                       limit |-> sfn.input.limit,
                       attempt |-> sfn.input.attempt]
           result == sync_third_party_with_retry(payload, outcome)
       IN  IF invoked
           THEN sfn' = [sfn EXCEPT
                          !.state = "CheckSyncSuccess",
                          !.input = [syncResult |-> [Payload |-> result]] @@ sfn.input,
                          !.invocations = Append(@, [payload |-> payload] @@ result),
                          !.path = Enter("CheckSyncSuccess")]
           ELSE sfn' = [sfn EXCEPT !.state = "TaskFailed",
                                   !.path = Enter("TaskFailed")]
    /\ UNCHANGED <<store, putLog, queue, blob, nextId, now, prod, wk, trig, rd, wk2, orders, ow>>

\* CheckSyncSuccess giving up on a failure that reports should_retry = false
CheckSyncSuccess_should_retry ==
    /\ sfn.state = "CheckSyncSuccess"
    /\ LET next == IF sfn.input.syncResult.Payload.success = TRUE
                   THEN "SyncSucceeded"
                   ELSE IF sfn.input.syncResult.Payload.should_retry = TRUE
                   THEN "IncrementAttempt" ELSE "MaxRetriesReached"
       IN  sfn' = [sfn EXCEPT !.state = next, !.path = Enter(next)]
    /\ UNCHANGED <<store, putLog, queue, blob, nextId, now, prod, wk, trig, rd, wk2, orders, ow>>

\* check_success: when $.syncResult.Payload.success is true -> sync_succeeded,
\* otherwise -> increment_attempt
CheckSyncSuccess ==
    /\ sfn.state = "CheckSyncSuccess"
    /\ LET next == IF sfn.input.syncResult.Payload.success = TRUE
                   THEN "SyncSucceeded" ELSE "IncrementAttempt"
       IN  sfn' = [sfn EXCEPT !.state = next, !.path = Enter(next)]
    /\ UNCHANGED <<store, putLog, queue, blob, nextId, now, prod, wk, trig, rd, wk2, orders, ow>>

\* IncrementAttempt passing on the default limit instead of $.limit
IncrementAttempt_default_limit ==
    /\ sfn.state = "IncrementAttempt"
    /\ sfn' = [sfn EXCEPT
                 !.state = "CheckRetryLimit",
                 !.input = [resource_type |-> sfn.input.resource_type,
                            limit |-> 10,
                            attempt |-> sfn.input.attempt + 1],
                 !.path = Enter("CheckRetryLimit")]
    /\ UNCHANGED <<store, putLog, queue, blob, nextId, now, prod, wk, trig, rd, wk2, orders, ow>>

\* increment_attempt = Pass(parameters = {resource_type, limit,
\* attempt = States.MathAdd($.attempt, 1)}), then check_retry_limit
IncrementAttempt ==
    /\ sfn.state = "IncrementAttempt"
    /\ sfn' = [sfn EXCEPT
                 !.state = "CheckRetryLimit",
                 !.input = [resource_type |-> sfn.input.resource_type,
                            limit |-> sfn.input.limit,
                            attempt |-> sfn.input.attempt + 1],
                 !.path = Enter("CheckRetryLimit")]
    /\ UNCHANGED <<store, putLog, queue, blob, nextId, now, prod, wk, trig, rd, wk2, orders, ow>>

\* CheckRetryLimit without its otherwise branch: no rule matches attempt 4
CheckRetryLimit_no_otherwise ==
    /\ sfn.state = "CheckRetryLimit"
    /\ sfn.input.attempt < RetryLimit
    /\ sfn' = [sfn EXCEPT !.state = "WaitBeforeRetry",
                          !.path = Enter("WaitBeforeRetry")]
    /\ UNCHANGED <<store, putLog, queue, blob, nextId, now, prod, wk, trig, rd, wk2, orders, ow>>

\* CheckRetryLimit letting attempt 4 through to another round
CheckRetryLimit_inclusive ==
    /\ sfn.state = "CheckRetryLimit"
    /\ LET next == IF sfn.input.attempt <= RetryLimit
                   THEN "WaitBeforeRetry" ELSE "MaxRetriesReached"
       IN  sfn' = [sfn EXCEPT !.state = next, !.path = Enter(next)]
    /\ UNCHANGED <<store, putLog, queue, blob, nextId, now, prod, wk, trig, rd, wk2, orders, ow>>

\* check_retry_limit: when $.attempt < 4 -> wait_before_retry, otherwise
\* -> max_retries_reached
CheckRetryLimit ==
    /\ sfn.state = "CheckRetryLimit"
    /\ LET next == IF sfn.input.attempt < RetryLimit
                   THEN "WaitBeforeRetry" ELSE "MaxRetriesReached"
       IN  sfn' = [sfn EXCEPT !.state = next, !.path = Enter(next)]
    /\ UNCHANGED <<store, putLog, queue, blob, nextId, now, prod, wk, trig, rd, wk2, orders, ow>>

\* wait_before_retry.next(sync_task)
WaitBeforeRetry ==
    /\ sfn.state = "WaitBeforeRetry"
    /\ sfn' = [sfn EXCEPT !.state = "SyncThirdPartyTask",
                          !.path = Enter("SyncThirdPartyTask")]
    /\ UNCHANGED <<store, putLog, queue, blob, nextId, now, prod, wk, trig, rd, wk2, orders, ow>>

TriggerParams ==
    { <<>>,
      [resource |-> "users"],
      [resource |-> "bogus"],
      [limit |-> [digits |-> 1]],
      [resource |-> "todos", limit |-> [digits |-> 100]],
      [limit |-> [digits |-> 0]],
      [limit |-> [digits |-> 101]],
      [limit |-> [text |-> "abc"]] }


Init ==
    /\ store = <<>>
    /\ putLog = {}
    /\ queue = <<>>
    /\ blob = EmptyDict
    /\ nextId = 1
    /\ now = 0
    /\ prod = IdleProd
    /\ wk = IdleWk
    /\ sfn = IdleSfn
    /\ trig = IdleTrig
    /\ rd = IdleRd
    /\ wk2 = IdleWk
    /\ orders = OrdersTable
    /\ ow = IdleOw

ExportOutcomes == {"ok", "error"}

Next ==
    \/ \E e \in CreateEvents : create_export_job_begin(e)
    \/ \E ok \in BOOLEAN : create_export_job_put_item(ok)
    \/ \E ok \in BOOLEAN : create_export_job_send_message(ok)
    \/ \E b \in DistinctSeqs(Receivable, BatchSize) : sqs_receive_batch(b)
    \/ \E j \in DOMAIN queue : sqs_dead_letter(j)
    \/ \E ok \in BOOLEAN : process_export_job_begin_item(ok)
    \/ \E o \in ExportOutcomes : process_export_job_export(o)
    \/ \E ok \in BOOLEAN : process_export_job_completed(ok)
    \/ \E ok \in BOOLEAN : process_export_job_except(ok)
    \/ sqs_event_source_finish

Spec == Init /\ [][Next]_vars

\* The order worker alone
SpecOrders == Init /\ [][NextOrders]_vars

NextSync ==
    \/ \E p \in TriggerParams, started \in BOOLEAN : trigger_sync(p, started)
    \/ \E o \in SyncOutcomes, invoked \in BOOLEAN : SyncThirdPartyTask(o, invoked)
    \/ CheckSyncSuccess
    \/ IncrementAttempt
    \/ CheckRetryLimit
    \/ WaitBeforeRetry

SpecSync == Init /\ [][NextSync]_vars

\* The Step Functions service runs every state of a started execution: a
\* task returns or fails, a choice is taken, a wait of 30 seconds ends
SyncStep ==
    \/ \E o \in SyncOutcomes, invoked \in BOOLEAN : SyncThirdPartyTask(o, invoked)
    \/ CheckSyncSuccess
    \/ IncrementAttempt
    \/ CheckRetryLimit
    \/ WaitBeforeRetry

SpecSyncFair == Init /\ [][NextSync]_vars /\ WF_vars(SyncStep)

\* A worker-side scenario: three jobs have been created and enqueued
\* (three accepted create_export_job requests), nothing received yet.
PendingItem(j, export_type) ==
    [job_id |-> j, export_type |-> export_type, format |-> "csv",
     filters |-> EmptyDict, status |-> "pending", createdAt |-> 0,
     updatedAt |-> 0, ttl |-> 30]

InitBatch ==
    /\ store = [j \in 1..3 |-> PendingItem(j, IF j = 2 THEN "orders" ELSE "users")]
    /\ putLog = 1..3
    /\ queue = [j \in 1..3 |-> SentMessage(store[j])]
    /\ blob = EmptyDict
    /\ nextId = 4
    /\ now = 0
    /\ prod = IdleProd
    /\ wk = IdleWk
    /\ sfn = IdleSfn
    /\ trig = IdleTrig
    /\ rd = IdleRd
    /\ wk2 = IdleWk
    /\ orders = OrdersTable
    /\ ow = IdleOw

NextBatch ==
    \/ \E b \in DistinctSeqs(Receivable, BatchSize) : sqs_receive_batch(b)
    \/ \E j \in DOMAIN queue : sqs_dead_letter(j)
    \/ \E ok \in BOOLEAN : process_export_job_begin_item(ok)
    \/ \E o \in ExportOutcomes : process_export_job_export(o)
    \/ \E ok \in BOOLEAN : process_export_job_completed(ok)
    \/ \E ok \in BOOLEAN : process_export_job_except(ok)
    \/ sqs_event_source_finish

SpecBatch == InitBatch /\ [][NextBatch]_vars

\* ------------------------------------------------- reading while working
\* The requester u1 has one job more than a page holds; the newest of them
\* is on the queue, the others stay pending (their send_message failed), and
\* so do a job of requester u2 and a job without a requester. The two newest
\* jobs of u1 were created in the same instant.
ReadJobs ==
    LET item(j, createdAt) ==
            [job_id |-> j, export_type |-> IF j % 2 = 0 THEN "orders" ELSE "users",
             format |-> "csv", filters |-> EmptyDict, status |-> "pending",
             createdAt |-> createdAt, updatedAt |-> createdAt,
             ttl |-> createdAt + 30]
    IN  [j \in 1..(PageSize + 3) |->
            IF j <= PageSize THEN item(j, j) @@ [user_id |-> "u1"]
            ELSE IF j = PageSize + 1 THEN item(j, PageSize) @@ [user_id |-> "u1"]
            ELSE IF j = PageSize + 2 THEN item(j, 7) @@ [user_id |-> "u2"]
            ELSE item(j, 7)]

InitRead ==
    /\ store = ReadJobs
    /\ putLog = DOMAIN ReadJobs
    /\ queue = ((PageSize + 1) :> SentMessage(store[PageSize + 1]))
    /\ blob = EmptyDict
    /\ nextId = PageSize + 4
    /\ now = PageSize + 1
    /\ prod = IdleProd
    /\ wk = IdleWk
    /\ sfn = IdleSfn
    /\ trig = IdleTrig
    /\ rd = IdleRd
    /\ wk2 = IdleWk
    /\ orders = OrdersTable
    /\ ow = IdleOw

ReadEvents ==
    { <<>>,
      [queryStringParameters |-> EmptyDict, pathParameters |-> EmptyDict],
      [queryStringParameters |-> [user_id |-> ""],
       pathParameters |-> [jobId |-> PageSize + 1]],
      [pathParameters |-> [jobId |-> 1]],
      [pathParameters |-> [jobId |-> PageSize + 3]],
      [pathParameters |-> [jobId |-> PageSize + 4]],
      [queryStringParameters |-> [user_id |-> "u1"]],
      [queryStringParameters |-> [user_id |-> "u2"],
       pathParameters |-> [jobId |-> 1]],
      [queryStringParameters |-> [user_id |-> "nobody"]] }

NextRead ==
    \/ \E b \in DistinctSeqs(Receivable, BatchSize) : sqs_receive_batch(b)
    \/ \E j \in DOMAIN queue : sqs_dead_letter(j)
    \/ \E ok \in BOOLEAN : process_export_job_begin_item(ok)
    \/ \E o \in ExportOutcomes : process_export_job_export(o)
    \/ \E ok \in BOOLEAN : process_export_job_completed(ok)
    \/ \E ok \in BOOLEAN : process_export_job_except(ok)
    \/ sqs_event_source_finish
    \/ \E e \in ReadEvents, ok \in BOOLEAN : get_export_job(e, ok)

SpecRead == InitRead /\ [][NextRead]_vars

\* ------------------------------------------------------- filtered exports
FilterSets ==
    { EmptyDict,
      [start_date |-> <<2>>],
      [end_date |-> <<2, 5>>],
      [start_date |-> <<2>>, status |-> "active"],
      [status |-> "shipped", start_date |-> <<1>>, end_date |-> <<3>>],
      [user_id |-> "u1"],
      [start_date |-> <<2>>, user_id |-> "u2"] }

FilterEvents ==
    { ObjBody([export_type |-> t, format |-> f, filters |-> fs]) :
        t \in ValidExportTypes, f \in {"csv", "json"}, fs \in FilterSets }

\* Requests with filters, each job exported without a fault
NextFilter ==
    \/ \E e \in FilterEvents : create_export_job_begin(e)
    \/ \E ok \in {TRUE} : create_export_job_put_item(ok)
    \/ \E ok \in {TRUE} : create_export_job_send_message(ok)
    \/ \E b \in DistinctSeqs(Receivable, BatchSize) : sqs_receive_batch(b)
    \/ \E ok \in {TRUE} : process_export_job_begin_item(ok)
    \/ \E o \in {"ok"} : process_export_job_export(o)
    \/ \E ok \in {TRUE} : process_export_job_completed(ok)
    \/ sqs_event_source_finish

SpecFilter == Init /\ [][NextFilter]_vars

\* ------------------------------------------------------- records that go
\* The item of job j leaves the table: export_jobs has time_to_live_attribute
\* "ttl" (DynamoDB deletes the expired item) and can be deleted by hand; no
\* handler deletes or re-reads it, and the message of j stays where it is
job_record_removed(j) ==
    /\ j \in DOMAIN store
    /\ store' = [k \in DOMAIN store \ {j} |-> store[k]]
    /\ UNCHANGED <<putLog, queue, blob, nextId, now, prod, wk, sfn, trig, rd, wk2, orders, ow>>

\* Two created jobs on the queue
InitOrphan ==
    /\ store = [j \in 1..2 |-> PendingItem(j, IF j = 2 THEN "orders" ELSE "users")]
    /\ putLog = 1..2
    /\ queue = [j \in 1..2 |-> SentMessage(store[j])]
    /\ blob = EmptyDict
    /\ nextId = 3
    /\ now = 0
    /\ prod = IdleProd
    /\ wk = IdleWk
    /\ sfn = IdleSfn
    /\ trig = IdleTrig
    /\ rd = IdleRd
    /\ wk2 = IdleWk
    /\ orders = OrdersTable
    /\ ow = IdleOw

NextOrphan ==
    \/ \E j \in DOMAIN store : job_record_removed(j)
    \/ \E b \in DistinctSeqs(Receivable, BatchSize) : sqs_receive_batch(b)
    \/ \E j \in DOMAIN queue : sqs_dead_letter(j)
    \/ \E ok \in BOOLEAN : process_export_job_begin_item(ok)
    \/ \E o \in ExportOutcomes : process_export_job_export(o)
    \/ \E ok \in BOOLEAN : process_export_job_completed(ok)
    \/ \E ok \in BOOLEAN : process_export_job_except(ok)
    \/ sqs_event_source_finish

SpecOrphan == InitOrphan /\ [][NextOrphan]_vars

\* ------------------------------------------------- concurrent invocations
\* The event source runs several invocations of the worker at once, each
\* with its own batch and its own local variables. wk is the invocation
\* that takes the next step and wk2 the other one: the scheduler turning to
\* the other invocation exchanges them.
switch_invocation ==
    /\ wk # wk2
    /\ wk' = wk2
    /\ wk2' = wk
    /\ UNCHANGED <<store, putLog, queue, blob, nextId, now, prod, sfn, trig, rd, orders, ow>>

\* Two created jobs on the queue and two invocations to work on them, each
\* given one message at a time
NextPar ==
    \/ switch_invocation
    \/ \E b \in DistinctSeqs(Receivable, 1) : sqs_receive_batch(b)
    \/ \E j \in DOMAIN queue : sqs_dead_letter(j)
    \/ \E ok \in BOOLEAN : process_export_job_begin_item(ok)
    \/ \E o \in ExportOutcomes : process_export_job_export(o)
    \/ \E ok \in BOOLEAN : process_export_job_completed(ok)
    \/ \E ok \in BOOLEAN : process_export_job_except(ok)
    \/ sqs_event_source_finish

SpecPar == InitOrphan /\ [][NextPar]_vars

\* ------------------------------------------------------ crashed invocations
\* The invocation ends without running its next statement (the function's
\* timeout of 300 s, or the runtime dying): nothing more is written, and the
\* event source sees a failed invocation.
lambda_invocation_crash ==
    /\ wk.pc \in {"item", "export", "complete", "except"}
    /\ wk' = [wk EXCEPT !.pc = "raised"]
    /\ UNCHANGED <<store, putLog, queue, blob, nextId, now, prod, sfn, trig, rd, wk2, orders, ow>>

\* Two created jobs on the queue; the store accepts every write, exports
\* succeed or fail, invocations crash, records expire
NextCrash ==
    \/ lambda_invocation_crash
    \/ \E j \in DOMAIN store : job_record_removed(j)
    \/ \E b \in DistinctSeqs(Receivable, BatchSize) : sqs_receive_batch(b)
    \/ \E j \in DOMAIN queue : sqs_dead_letter(j)
    \/ \E ok \in {TRUE} : process_export_job_begin_item(ok)
    \/ \E o \in ExportOutcomes : process_export_job_export(o)
    \/ \E ok \in {TRUE} : process_export_job_completed(ok)
    \/ \E ok \in {TRUE} : process_export_job_except(ok)
    \/ sqs_event_source_finish

SpecCrash == InitOrphan /\ [][NextCrash]_vars

\* ------------------------------------------- two invocations, the same job
\* visibility_timeout=300 s, the same as the worker's timeout: a message
\* whose invocation is still running becomes visible again
sqs_visibility_timeout(j) ==
    /\ j \in DOMAIN queue
    /\ queue[j].state = "inflight"
    /\ queue' = [queue EXCEPT ![j].state = "visible"]
    /\ UNCHANGED <<store, putLog, blob, nextId, now, prod, wk, sfn, trig, rd, wk2, orders, ow>>

\* Two created jobs, two invocations given one message at a time, and the
\* store accepting every write. The body of a record is part of the
\* invocation's event, kept here in the queue entry: the event source's
\* deletion of a message is taken once no other invocation is still working
\* on it.
NextRace ==
    \/ switch_invocation
    \/ \E j \in DOMAIN queue : sqs_visibility_timeout(j)
    \/ \E b \in DistinctSeqs(Receivable, 1) : sqs_receive_batch(b)
    \/ \E j \in DOMAIN queue : sqs_dead_letter(j)
    \/ \E ok \in {TRUE} : process_export_job_begin_item(ok)
    \/ \E o \in ExportOutcomes : process_export_job_export(o)
    \/ \E ok \in {TRUE} : process_export_job_completed(ok)
    \/ \E ok \in {TRUE} : process_export_job_except(ok)
    \/ /\ wk2.batch # wk.batch \/ wk2.pc \in {"returned", "raised"}
       /\ sqs_event_source_finish

SpecRace == InitOrphan /\ [][NextRace]_vars

\* ------------------------------------------------------------ passing time
\* datetime.now(timezone.utc): the clock the handlers read moves on
Tick ==
    /\ now < MaxNow
    /\ now' = now + 1
    /\ UNCHANGED <<store, putLog, queue, blob, nextId, prod, wk, sfn, trig, rd, wk2, orders, ow>>

ClockEvents ==
    { ObjBody([export_type |-> "users"]),
      ObjBody([export_type |-> "orders", format |-> "json", user_id |-> "u1",
               filters |-> [start_date |-> <<2>>]]) }

\* The state after requests whose put_item failed have used up all job ids
\* but the last
InitClock ==
    /\ store = EmptyDict
    /\ putLog = {}
    /\ queue = EmptyDict
    /\ blob = EmptyDict
    /\ nextId = MaxJobs
    /\ now = 0
    /\ prod = IdleProd
    /\ wk = IdleWk
    /\ sfn = IdleSfn
    /\ trig = IdleTrig
    /\ rd = IdleRd
    /\ wk2 = IdleWk
    /\ orders = OrdersTable
    /\ ow = IdleOw

\* Accepted requests, the worker with all its faults, and the clock
NextClock ==
    \/ Tick
    \/ \E e \in ClockEvents : create_export_job_begin(e)
    \/ \E ok \in {TRUE} : create_export_job_put_item(ok)
    \/ \E ok \in {TRUE} : create_export_job_send_message(ok)
    \/ \E b \in DistinctSeqs(Receivable, BatchSize) : sqs_receive_batch(b)
    \/ \E j \in DOMAIN queue : sqs_dead_letter(j)
    \/ \E ok \in BOOLEAN : process_export_job_begin_item(ok)
    \/ \E o \in ExportOutcomes : process_export_job_export(o)
    \/ \E ok \in BOOLEAN : process_export_job_completed(ok)
    \/ \E ok \in BOOLEAN : process_export_job_except(ok)
    \/ sqs_event_source_finish

SpecClock == InitClock /\ [][NextClock]_vars

\* ------------------------------------------------------------ properties
Terminal == {"completed", "failed"}
ArtifactFields == {"s3_key", "download_url", "record_count"}

\* C1: once a job's stored status is completed or failed, no step changes it
\* (redelivery never rewrites a terminal job).
C1_TerminalIsStable ==
    [][\A j \in DOMAIN store :
          store[j].status \in Terminal => store'[j].status = store[j].status]_vars

\* C2: when an invocation over a batch of 3 in which item 2 raised (and was
\* recorded failed) is settled with the queue, items 1 and 3 are completed,
\* item 2 is failed, items 1 and 3 are gone from the queue and only item 2 is
\* visible again.
C2_PartialBatchFailure ==
    [][(/\ wk.pc = "raised"
        /\ wk'.pc = "idle"
        /\ Len(wk.batch) = 3
        /\ wk.i = 2
        /\ store[wk.batch[2]].status = "failed")
       => (/\ store'[wk.batch[1]].status = "completed"
           /\ store'[wk.batch[3]].status = "completed"
           /\ store'[wk.batch[2]].status = "failed"
           /\ wk.batch[1] \notin DOMAIN queue'
           /\ wk.batch[3] \notin DOMAIN queue'
           /\ wk.batch[2] \in DOMAIN queue'
           /\ queue'[wk.batch[2]].state = "visible")]_vars

\* C3: an execution that ends in MaxRetriesReached has invoked the sync task
\* exactly 4 times, with attempts 1, 2, 3, 4, every one reporting failure.
C3_ExhaustionAfterFour ==
    sfn.state = "MaxRetriesReached" =>
        /\ Len(sfn.invocations) = 4
        /\ \A k \in 1..Len(sfn.invocations) :
              /\ sfn.invocations[k].attempt = k
              /\ sfn.invocations[k].success = FALSE

\* C4: a task that fails on attempts 1..k-1 and succeeds on attempt k, for
\* any k up to the cap of 4, is invoked exactly k times and the execution then
\* succeeds: an execution in SyncSucceeded has k-1 failures followed by one
\* success, and no execution gives up before the 4th invocation.
C4_SuccessOnAttemptK ==
    /\ sfn.state = "SyncSucceeded" =>
          LET k == Len(sfn.invocations)
          IN  /\ k >= 1
              /\ sfn.invocations[k].success = TRUE
              /\ \A m \in 1..(k - 1) : sfn.invocations[m].success = FALSE
              /\ \A m \in 1..k : sfn.invocations[m].attempt = m
    /\ sfn.state = "MaxRetriesReached" => Len(sfn.invocations) >= 4

\* C5: a completed job has s3_key, download_url and record_count and has no
\* error_message.
C5_CompletedFields ==
    \A j \in DOMAIN store :
        store[j].status = "completed" =>
            /\ ArtifactFields \subseteq DOMAIN store[j]
            /\ "error_message" \notin DOMAIN store[j]

\* C6: a failed job has error_message and none of the artifact fields.
C6_FailedFields ==
    \A j \in DOMAIN store :
        store[j].status = "failed" =>
            /\ "error_message" \in DOMAIN store[j]
            /\ ArtifactFields \cap DOMAIN store[j] = {}

\* C7: a pending or processing job has neither artifact fields nor
\* error_message.
C7_NonTerminalFields ==
    \A j \in DOMAIN store :
        store[j].status \in {"pending", "processing"} =>
            (ArtifactFields \cup {"error_message"}) \cap DOMAIN store[j] = {}

\* C8: when create_export_job has answered 202 for a job_id, put_item of the
\* pending item with that job_id has already succeeded and the job is in the
\* store.
C8_PendingWrittenBefore202 ==
    (prod.pc = "done" /\ prod.statusCode = 202) =>
        /\ prod.job_id \in putLog
        /\ prod.job_id \in DOMAIN store
        /\ prod.item.status = "pending"
        /\ prod.item.job_id = prod.job_id

C8_Witness ==
    /\ prod.pc = "done"
    /\ prod.statusCode = 202
    /\ store[prod.job_id].status = "pending"

\* C9: every message of the queue (or dead-letter queue) carries a job_id
\* whose item the producer has written, and when the enqueue has failed the
\* pending item is in the store and no message exists for it.
SendFailed ==
    prod.pc = "done" /\ prod.statusCode = 500 /\ prod.job_id \in putLog

C9_StoreBeforeEnqueue ==
    /\ \A j \in DOMAIN queue :
          /\ queue[j].body.job_id = j
          /\ j \in putLog
          /\ j \in DOMAIN store
    /\ (prod.pc = "send" => prod.job_id \in putLog)
    /\ SendFailed =>
          /\ prod.job_id \in DOMAIN store
          /\ store[prod.job_id].status = "pending"
          /\ prod.job_id \notin DOMAIN queue

C9_Witness ==
    /\ SendFailed
    /\ DOMAIN queue # {}

\* C10: a request whose export_type is absent or not users/orders is answered
\* 400, and the step that answers it changes neither the store nor the queue.
RequestedKind(event) ==
    IF "body" \in DOMAIN event /\ event.body.json = "object"
    THEN Get(event.body.value, "export_type", None)
    ELSE None

C10_InvalidKindRejected ==
    [][(/\ prod.pc \in {"idle", "done"}
        /\ prod'.pc = "done"
        /\ prod' # prod
        /\ RequestedKind(prod'.body) \notin ValidExportTypes)
       => (/\ prod'.statusCode = 400
           /\ store' = store
           /\ queue' = queue)]_vars

\* C11: a failed put_item or send_message is answered with 500, put_item and
\* send_message are each called at most once per request, and a failed
\* put_item is followed by no send_message.
PutFailed ==
    prod.pc = "done" /\ prod.puts = 1 /\ prod.job_id \notin putLog

C11_NoInternalRetry ==
    /\ prod.puts <= 1
    /\ prod.sends <= 1
    /\ prod.sends = 1 => (prod.puts = 1 /\ prod.job_id \in putLog)
    /\ PutFailed => (prod.statusCode = 500 /\ prod.sends = 0)
    /\ (prod.pc = "done" /\ prod.sends = 1 /\ prod.job_id \notin DOMAIN queue
          /\ prod.job_id \in DOMAIN store /\ store[prod.job_id].status = "pending")
       => prod.statusCode = 500
    /\ (prod.pc = "done" /\ prod.statusCode = 500)
       => (prod.puts + prod.sends <= 2 /\ prod.job_id \notin DOMAIN queue)

C11_Witness ==
    /\ PutFailed
    /\ prod.statusCode = 500

\* C12 (as claimed): when the export step of an item has raised, the handler's
\* except branch leaves the job failed with error_message equal to the
\* exception's message, the invocation raises, and the item is visible again.
CurrentJob == wk.batch[wk.i]

RedeliveredAfterRaise ==
    (wk.pc = "raised" /\ wk'.pc = "idle") =>
        \A j \in Range(wk.batch) :
            j \in DOMAIN queue' /\ queue'[j].state = "visible"

C12_ExceptionFailsJob ==
    [][/\ (wk.pc = "except" /\ wk'.pc # "except") =>
             /\ wk'.pc = "raised"
             /\ store'[CurrentJob].status = "failed"
             /\ store'[CurrentJob].error_message = wk.error
       /\ RedeliveredAfterRaise]_vars

\* C12 (amended): when the export step of an item has raised, the handler
\* issues the failed update with the exception's message and then raises in
\* every case; the job is failed with that message unless the failed update
\* itself raises, in which case the store is unchanged; the item (with its
\* whole batch) is visible again once the invocation has ended.
C12_ExceptionRecordedThenRaised ==
    [][/\ (wk.pc = "except" /\ wk'.pc # "except") =>
             /\ wk'.pc = "raised"
             /\ \/ store' = store
                \/ /\ store'[CurrentJob].status = "failed"
                   /\ store'[CurrentJob].error_message = wk.error
                   /\ \A j \in DOMAIN store \ {CurrentJob} : store'[j] = store[j]
       /\ (wk.pc \in {"export", "complete"} /\ wk'.error # "") => wk'.pc = "except"
       /\ RedeliveredAfterRaise]_vars

C12_Witness ==
    /\ wk.pc = "raised"
    /\ wk.error # ""
    /\ store[CurrentJob].status = "failed"
    /\ store[CurrentJob].error_message = wk.error

\* ------------------------------------------------------- reader properties
ReqUser(e) == Get(Get(e, "queryStringParameters", EmptyDict), "user_id", None)
ReqJob(e) == Get(Get(e, "pathParameters", EmptyDict), "jobId", 0)
IsListing(e) == ReqUser(e) \notin {None, ""}
IsLookup(e) == ~IsListing(e) /\ ReqJob(e) # 0

\* C13: a lookup of a job id that has no record is answered 404 (500 when
\* the table call itself fails), and nothing else is ever answered 404.
C13_NotFoundIffAbsent ==
    [][ rd' # rd =>
          LET e == rd'.event
              absent == IsLookup(e) /\ ReqJob(e) \notin DOMAIN store
          IN  /\ rd'.statusCode = 404 => absent /\ ~rd'.fault
              /\ (absent /\ ~rd'.fault) => rd'.statusCode = 404
              /\ (absent /\ rd'.fault) => rd'.statusCode = 500 ]_vars

C13_Witness ==
    /\ rd.statusCode = 404
    /\ IsLookup(rd.event)
    /\ ReqJob(rd.event) \notin DOMAIN store

IdentityFields ==
    {"job_id", "export_type", "format", "status", "createdAt", "updatedAt"}

\* C14: the answer to a successful lookup carries the identity, state and
\* timestamps of the stored job, the artifact fields exactly when the job is
\* completed and the error message exactly when it is failed, whatever else
\* the stored item holds.
C14_ProjectionByState ==
    [][ (rd' # rd /\ rd'.statusCode = 200 /\ IsLookup(rd'.event)) =>
          LET job == store[ReqJob(rd'.event)]
              body == rd'.body
          IN  /\ DOMAIN body =
                    IdentityFields
                    \cup (IF job["status"] = "completed" THEN ArtifactFields ELSE {})
                    \cup (IF job["status"] = "failed" THEN {"error_message"} ELSE {})
              /\ \A k \in DOMAIN body \cap DOMAIN job : body[k] = job[k] ]_vars

\* a completed job whose item still holds the error of an earlier delivery
\* is answered without it
C14_Witness ==
    /\ rd.statusCode = 200
    /\ IsLookup(rd.event)
    /\ rd.body["status"] = "completed"
    /\ "error_message" \in DOMAIN store[rd.body["job_id"]]
    /\ "error_message" \notin DOMAIN rd.body

JobsOf(user_id) ==
    { j \in DOMAIN store : /\ "user_id" \in DOMAIN store[j]
                           /\ store[j]["user_id"] = user_id }

\* The entries are the newest jobs of the requester, newest first, at most
\* PageSize of them
NewestOfRequester(user_id, body) ==
    LET jobs == body["jobs"]
        Mine == JobsOf(user_id)
        Listed == { jobs[k]["job_id"] : k \in 1..Len(jobs) }
    IN  /\ body["count"] = Len(jobs)
        /\ Len(jobs) = (IF Cardinality(Mine) < PageSize THEN Cardinality(Mine)
                        ELSE PageSize)
        /\ Listed \subseteq Mine
        /\ Cardinality(Listed) = Len(jobs)
        /\ \A a, b \in 1..Len(jobs) :
              a < b => jobs[a]["createdAt"] >= jobs[b]["createdAt"]
        /\ \A j \in Mine \ Listed : \A k \in 1..Len(jobs) :
              store[j]["createdAt"] <= jobs[k]["createdAt"]

ListFields == {"job_id", "export_type", "status", "createdAt"}

\* C15 as stated: a listing holds the newest jobs of the requester, newest
\* first and at most 50, and every entry is projected like a single lookup,
\* a failed entry with its error message and a completed one with its
\* artifact fields.
C15_ListingProjectedLikeLookup ==
    [][ (rd' # rd /\ rd'.statusCode = 200 /\ IsListing(rd'.event)) =>
          /\ NewestOfRequester(ReqUser(rd'.event), rd'.body)
          /\ \A k \in 1..Len(rd'.body["jobs"]) :
                LET entry == rd'.body["jobs"][k]
                    job == store[entry["job_id"]]
                IN  /\ job["status"] = "failed" =>
                          /\ "error_message" \in DOMAIN entry
                          /\ entry["error_message"] = job["error_message"]
                    /\ job["status"] = "completed" =>
                          /\ ArtifactFields \subseteq DOMAIN entry
                          /\ \A f \in ArtifactFields : entry[f] = job[f] ]_vars

\* C15: a listing holds the newest jobs of the requester, newest first and
\* at most 50; every entry carries job_id, export_type, status and createdAt
\* of the stored job, and download_url and record_count exactly when the job
\* is completed; no entry carries an error message or an artifact key.
C15_ListingSimplified ==
    [][ (rd' # rd /\ rd'.statusCode = 200 /\ IsListing(rd'.event)) =>
          /\ NewestOfRequester(ReqUser(rd'.event), rd'.body)
          /\ \A k \in 1..Len(rd'.body["jobs"]) :
                LET entry == rd'.body["jobs"][k]
                    job == store[entry["job_id"]]
                IN  /\ DOMAIN entry =
                          ListFields
                          \cup (IF job["status"] = "completed"
                                THEN {"download_url", "record_count"} ELSE {})
                    /\ \A f \in DOMAIN entry : entry[f] = job[f] ]_vars

\* a full page that leaves out the oldest job of the requester and holds a
\* failed job
C15_Witness ==
    /\ rd.statusCode = 200
    /\ IsListing(rd.event)
    /\ rd.body["count"] = PageSize
    /\ Cardinality(JobsOf(ReqUser(rd.event))) > PageSize
    /\ \E k \in 1..PageSize : rd.body["jobs"][k]["status"] = "failed"


\* ------------------------------------------------------- export properties
SourceItems(export_type) ==
    IF export_type = "users" THEN UsersTableItems ELSE OrdersTableItems

\* What a supplied filter asks of a source record
Satisfies(export_type, rec, key, value) ==
    CASE key = "status" ->
            IF export_type = "users" THEN rec["accountStatus"] = value
            ELSE rec["status"] = value
      [] key = "start_date" -> StrLE(value, rec["createdAt"])
      [] key = "end_date" -> StrLE(rec["createdAt"], value)
      [] OTHER -> key \in DOMAIN rec /\ rec[key] = value

Matching(export_type, filters) ==
    { rec \in SourceItems(export_type) :
        \A key \in DOMAIN filters : Satisfies(export_type, rec, key, filters[key]) }

RecordId(export_type, row) ==
    IF export_type = "users" THEN row["user_id"] ELSE row["order_id"]

\* C16: the artifact of a completed job holds exactly the source records
\* that satisfy every filter the job was created with, and record_count is
\* their number.
C16_FilterRoundTrip ==
    \A j \in DOMAIN store :
        store[j]["status"] = "completed" =>
            LET t == store[j]["export_type"]
                expected == Matching(t, store[j]["filters"])
                artifact == blob[store[j]["s3_key"]]
            IN  /\ { RecordId(t, row) : row \in artifact.rows } =
                       { RecordId(t, rec) : rec \in expected }
                /\ store[j]["record_count"] = Cardinality(expected)


\* C17: a record comes into existence only by the producer's put_item; no
\* step of the worker adds a job_id to the store, so a work item whose job
\* has no record leaves the store without one.
C17_OnlyProducerCreates ==
    [][ \A j \in DOMAIN store' \ DOMAIN store :
           prod.pc = "put" /\ prod.job_id = j /\ prod'.pc = "send" ]_vars


\* ------------------------------------------------- orchestrator properties
\* The states one round goes through, from the success flag of its
\* invocation and the attempt it was given
Round(inv) ==
    <<"SyncThirdPartyTask", "CheckSyncSuccess">> \o
    (IF inv.success THEN <<"SyncSucceeded">>
     ELSE <<"IncrementAttempt", "CheckRetryLimit",
            IF inv.attempt + 1 < RetryLimit THEN "WaitBeforeRetry"
            ELSE "MaxRetriesReached">>)

RECURSIVE PathOf(_)
PathOf(invs) ==
    IF invs = <<>> THEN <<>>
    ELSE PathOf(SubSeq(invs, 1, Len(invs) - 1)) \o Round(invs[Len(invs)])

IsPrefix(a, b) == Len(a) <= Len(b) /\ SubSeq(b, 1, Len(a)) = a

Running ==
    sfn.state \in {"SyncThirdPartyTask", "CheckSyncSuccess", "IncrementAttempt",
                   "CheckRetryLimit", "WaitBeforeRetry"}

\* C19: IncrementAttempt sets attempt to attempt + 1 and keeps resource_type
\* and limit, and every invocation of a running execution was given the
\* resource_type and limit of the trigger that started it.
C19_IncrementKeepsInput ==
    [][ /\ (sfn.state = "IncrementAttempt" /\ sfn'.state # sfn.state) =>
              /\ sfn'.input["attempt"] = sfn.input["attempt"] + 1
              /\ sfn'.input["resource_type"] = sfn.input["resource_type"]
              /\ sfn'.input["limit"] = sfn.input["limit"]
        /\ Running' =>
              /\ trig'.statusCode = 202
              /\ \A k \in 1..Len(sfn'.invocations) :
                    /\ sfn'.invocations[k].payload.resource_type =
                           Get(trig'.params, "resource", "posts")
                    /\ sfn'.invocations[k].payload.limit =
                           int(Get(trig'.params, "limit", [digits |-> 10])).value
                    /\ sfn'.invocations[k].payload.attempt = k ]_vars

C19_Witness ==
    /\ Running
    /\ Len(sfn.invocations) >= 2
    /\ sfn.invocations[2].payload.limit = 100
    /\ sfn.invocations[2].payload.resource_type = "todos"

\* The order of the states entered so far
PathOrder ==
    \A i \in 1..Len(sfn.path) :
        /\ sfn.path[i] = "SyncThirdPartyTask" =>
              i = 1 \/ sfn.path[i - 1] = "WaitBeforeRetry"
        /\ sfn.path[i] = "WaitBeforeRetry" =>
              i > 1 /\ sfn.path[i - 1] = "CheckRetryLimit"
        /\ sfn.path[i] = "MaxRetriesReached" =>
              i > 1 /\ sfn.path[i - 1] = "CheckRetryLimit"
        /\ sfn.path[i] = "CheckRetryLimit" =>
              i > 1 /\ sfn.path[i - 1] = "IncrementAttempt"
        /\ sfn.path[i] = "SyncSucceeded" =>
              /\ i > 2
              /\ sfn.path[i - 1] = "CheckSyncSuccess"
              /\ sfn.path[i - 2] = "SyncThirdPartyTask"
              /\ sfn.invocations[Len(sfn.invocations)].success = TRUE

\* C20: CheckRetryLimit goes to WaitBeforeRetry exactly when the incremented
\* attempt is below 4 and to MaxRetriesReached otherwise; the task is
\* re-entered only from WaitBeforeRetry, so two consecutive invocations have
\* exactly one wait between them, and SyncSucceeded is entered only straight
\* after an invocation that reported success.
C20_CheckLimitAndWaitOrder ==
    [][ /\ (sfn.state = "CheckRetryLimit" /\ sfn'.state # sfn.state) =>
              /\ sfn.input["attempt"] < 4 <=> sfn'.state = "WaitBeforeRetry"
              /\ sfn.input["attempt"] >= 4 <=> sfn'.state = "MaxRetriesReached"
        /\ PathOrder'
        /\ Cardinality({ i \in 1..Len(sfn'.path) : sfn'.path[i] = "WaitBeforeRetry" })
              = (IF Len(sfn'.invocations) = 0 THEN 0
                 ELSE IF sfn'.state \in {"SyncThirdPartyTask", "TaskFailed"}
                 THEN Len(sfn'.invocations)
                 ELSE IF sfn'.state = "WaitBeforeRetry"
                 THEN Len(sfn'.invocations)
                 ELSE Len(sfn'.invocations) - 1) ]_vars

C20_Witness ==
    /\ sfn.state = "MaxRetriesReached"
    /\ sfn.path[Len(sfn.path) - 1] = "CheckRetryLimit"
    /\ \E i \in 1..Len(sfn.path) : sfn.path[i] = "WaitBeforeRetry"


\* C21: every started execution ends: whatever the sync task returns, the
\* execution reaches SyncSucceeded or a failed end (MaxRetriesReached, or
\* the failure of the task state itself); none goes round the task forever.
C21_ExecutionTerminates ==
    Running ~> sfn.state \in {"SyncSucceeded", "MaxRetriesReached", "TaskFailed"}

\* an execution that failed every round has ended
C21_Witness ==
    /\ sfn.state = "MaxRetriesReached"
    /\ \A k \in 1..Len(sfn.invocations) : sfn.invocations[k].success = FALSE
    /\ sfn.input["attempt"] = RetryLimit


\* --------------------------------------------------- concurrency properties
\* What one delivery of the work item of job j, processed by itself, can turn
\* the record r into
AloneDelivery(j, r) ==
    LET t == r["export_type"]
        data == IF t = "users" THEN export_users(r["filters"])
                ELSE export_orders(r["filters"])
        key == <<"exports", t, j, now, IF r["format"] = "csv" THEN "csv" ELSE "json">>
        processing == update_job_status((j :> r), j, "processing", EmptyDict)
        completed == update_job_status(processing, j, "completed",
                         [s3_key |-> key, download_url |-> <<"presigned", key>>,
                          record_count |-> Cardinality(data)])
        failed == update_job_status(processing, j, "failed",
                                    [error_message |-> ClientError])
    IN  [stays |-> {r, processing[j], failed[j]}, done |-> {completed[j]}]

\* The records of job j that up to MaxReceiveCount deliveries of its own work
\* item can leave behind (a completed delivery deletes the message)
AloneRecords(j) ==
    LET r0 == {PendingItem(j, IF j = 2 THEN "orders" ELSE "users")}
        next(R) == UNION { AloneDelivery(j, r).stays : r \in R }
        done(R) == UNION { AloneDelivery(j, r).done : r \in R }
        r1 == next(r0)
        r2 == next(r1)
        r3 == next(r2)
    IN  r0 \cup r1 \cup r2 \cup r3 \cup done(r0) \cup done(r1) \cup done(r2)

\* C22: a step of an invocation changes no record but the one of the job it
\* is working on, and with another invocation working on another job at the
\* same time the record of a job is one that its own deliveries alone produce.
C22_NoCrossJobInterference ==
    [][ /\ \A j \in DOMAIN store :
              store'[j] # store[j] =>
                  wk.pc \in {"item", "complete", "except"} /\ j = CurrentJob
        /\ \A j \in DOMAIN store' : store'[j] \in AloneRecords(j) ]_vars

\* both invocations are at work, on different jobs, and one job is already
\* in a terminal state
C22_Witness ==
    /\ wk.pc \in {"export", "complete", "except"}
    /\ wk2.pc \in {"export", "complete", "except"}
    /\ wk.batch # wk2.batch
    /\ store[wk2.batch[1]]["status"] = "processing"
    /\ "error_message" \in DOMAIN store[wk.batch[1]]


\* C23: a call of the status reader, whatever it answers, leaves the job
\* store, the work queue and the reports bucket as they were.
C23_ReadersNeverMutate ==
    [][ rd' # rd => UNCHANGED <<store, putLog, queue, blob, orders, ow>> ]_vars

\* a lookup answered from a record the worker has already written to
C23_Witness ==
    /\ rd.statusCode = 200
    /\ IsLookup(rd.event)
    /\ rd.body["status"] \in {"processing", "failed"}
    /\ ReqJob(rd.event) \in DOMAIN queue


ProducerFields ==
    {"job_id", "export_type", "format", "filters", "user_id", "createdAt", "ttl"}

\* C24: no step changes, adds or removes job_id, export_type, format,
\* filters, user_id, createdAt or ttl of a stored job, and every step that
\* changes the status of a job sets its updatedAt to the time of the step.
C24_WorkerKeepsProducerFields ==
    [][ \A j \in DOMAIN store :
          /\ j \in DOMAIN store'
          /\ \A f \in ProducerFields :
                /\ (f \in DOMAIN store'[j]) = (f \in DOMAIN store[j])
                /\ f \in DOMAIN store[j] => store'[j][f] = store[j][f]
          /\ store'[j]["status"] # store[j]["status"] =>
                store'[j]["updatedAt"] = now ]_vars

\* a job with a requester and filters, completed later than it was created
C24_Witness ==
    \E j \in DOMAIN store :
        /\ store[j]["status"] = "completed"
        /\ store[j]["updatedAt"] > store[j]["createdAt"]
        /\ "user_id" \in DOMAIN store[j]
        /\ store[j]["filters"] # EmptyDict


\* C25: a work item is delivered at most 3 times; once moved to the
\* dead-letter queue it stays there untouched and is in no batch; and an
\* invocation attempts the export of an item once per delivery (it goes to
\* an item only from the receive or from the item before it), so the export
\* of one job is attempted at most 3 times.
C25_RedeliveryBounded ==
    [][ /\ \A j \in DOMAIN queue' :
              /\ queue'[j].receiveCount <= 3
              /\ queue'[j].state = "dlq" =>
                    queue'[j].receiveCount = 3 /\ j \notin Range(wk'.batch)
        /\ \A j \in DOMAIN queue :
              queue[j].state = "dlq" => j \in DOMAIN queue' /\ queue'[j] = queue[j]
        /\ (wk'.pc = "export" /\ wk.pc # "export") =>
              wk.pc = "item" /\ wk'.i = wk.i /\ wk'.batch = wk.batch
        /\ (wk'.pc = "item" /\ wk' # wk) =>
              \/ wk.pc = "idle" /\ wk'.i = 1
                   /\ \A j \in Range(wk'.batch) :
                         queue'[j].receiveCount = queue[j].receiveCount + 1
              \/ wk.pc = "complete" /\ wk'.i = wk.i + 1 /\ wk'.batch = wk.batch ]_vars

\* a job whose export failed on each of its 3 deliveries, dead-lettered
C25_Witness ==
    \E j \in DOMAIN queue :
        /\ queue[j].state = "dlq"
        /\ queue[j].receiveCount = 3
        /\ store[j]["status"] = "failed"


StatusOf(tbl, j) == IF j \in DOMAIN tbl THEN tbl[j]["status"] ELSE None

\* C26: a job in processing gets another state only by the terminal write
\* of an invocation that holds its delivered work item, and a dead-lettered
\* item stays dead-lettered; so from the moment the item of a job in
\* processing is in the dead-letter queue, the job's record never shows
\* another state (it shows processing for as long as the record exists).
C26_StuckInProcessing ==
    /\ [][ \A j \in DOMAIN store :
             /\ (StatusOf(store, j) = "processing" /\ j \in DOMAIN store'
                   /\ StatusOf(store', j) # "processing") =>
                   /\ wk.pc \in {"complete", "except"}
                   /\ CurrentJob = j
                   /\ queue[j].state = "inflight"
             /\ (j \in DOMAIN queue /\ queue[j].state = "dlq") =>
                   j \in DOMAIN queue' /\ queue'[j].state = "dlq" ]_vars
    /\ \A j \in 1..2 :
          [] ( (j \in DOMAIN queue /\ queue[j].state = "dlq"
                  /\ StatusOf(store, j) = "processing")
               => [] (StatusOf(store, j) \in {"processing", None}) )

\* job 1 crashed on its third delivery: it is in processing, its item is in
\* the dead-letter queue, and the worker has since completed job 2
C26_Witness ==
    /\ 1 \in DOMAIN queue
    /\ queue[1].state = "dlq"
    /\ StatusOf(store, 1) = "processing"
    /\ StatusOf(store, 2) = "completed"
    /\ wk.pc = "idle"


\* C27: within one invocation the records are taken in delivery order (the
\* record worked on is batch[i], every earlier record of the batch has been
\* completed by this invocation, and i only moves to the next record); a
\* step that writes completed or failed writes the job of the current
\* record, which this invocation has written to processing before; and the
\* completed write names an artifact that is already in the blob store.
C27_OrderWithinInvocation ==
    [][ /\ \A j \in DOMAIN store' :
              (store'[j] # store[j] /\ store'[j]["status"] \in Terminal) =>
                  /\ wk.pc \in {"complete", "except"}
                  /\ j = CurrentJob
                  /\ store[j]["status"] = "processing"
                  /\ store'[j]["status"] = "completed" =>
                        /\ wk.pc = "complete"
                        /\ store'[j]["s3_key"] \in DOMAIN blob
        /\ \A j \in DOMAIN store' :
              (store'[j] # store[j] /\ store'[j]["status"] = "processing") =>
                  wk.pc = "item" /\ j = CurrentJob
        /\ wk'.pc \notin {"idle", "raised", "returned"} =>
              /\ wk'.i \in 1..Len(wk'.batch)
              /\ wk.pc # "idle" => /\ wk'.batch = wk.batch
                                   /\ wk'.i \in {wk.i, wk.i + 1}
              /\ \A k \in 1..(wk'.i - 1) :
                    store'[wk'.batch[k]]["status"] = "completed" ]_vars

\* the third record of a batch delivered in an order other than the order of
\* creation has failed its export; the two before it are completed
C27_Witness ==
    /\ wk.pc = "except"
    /\ wk.i = 3
    /\ wk.batch = <<2, 3, 1>>
    /\ store[2]["status"] = "completed"
    /\ store[3]["status"] = "completed"
    /\ store[1]["status"] = "processing"
    /\ Cardinality(DOMAIN blob) = 2


Finished == {"returned", "raised"}

RECURSIVE FailureIds(_)
FailureIds(items) ==
    IF items = <<>> THEN <<>>
    ELSE <<items[1]["itemIdentifier"]>> \o FailureIds(Tail(items))

\* the message ids, in batch order, of the first n records whose turn did
\* not end with the order completed
RECURSIVE NotSucceeded(_)
NotSucceeded(n) ==
    IF n = 0 THEN <<>>
    ELSE NotSucceeded(n - 1) \o
         (IF ow.log[n] = "completed" THEN <<>> ELSE <<ow.Records[n].messageId>>)

\* the order a record names, None if the body cannot be parsed to one
OrderOf(record) ==
    IF json_loads_body(record).ok
       /\ "order_id" \in DOMAIN json_loads_body(record).value
    THEN json_loads_body(record).value["order_id"]
    ELSE None

\* C29: the failure list holds exactly the message ids of the records
\* handled so far that did not succeed, and the response returns it once
\* every record of the batch has had its turn; a record succeeds only if it
\* parses to an order of the table whose turn left it COMPLETED, and a turn
\* that fails never stops the loop.
C29_PartialBatchResponse ==
    /\ [] ( ow.pc # "idle" =>
              /\ Len(ow.log) = ow.i - 1
              /\ FailureIds(ow.failed_items) = NotSucceeded(ow.i - 1)
              /\ ow.pc \in {"return", "returned"} => ow.i = Len(ow.Records) + 1
              /\ ow.pc = "returned" =>
                    ow.response = [batchItemFailures |-> ow.failed_items] )
    /\ [][ ow.pc = "record" =>
             /\ ow'.i = ow.i + 1
             /\ ow'.log[ow.i] = "completed" =>
                   /\ OrderOf(ow.Records[ow.i]) \in DOMAIN orders
                   /\ orders'[OrderOf(ow.Records[ow.i])]["status"] = "COMPLETED"
             /\ ow'.log[ow.i] # "completed" =>
                   \/ OrderOf(ow.Records[ow.i]) \notin DOMAIN orders'
                   \/ orders'[OrderOf(ow.Records[ow.i])]["status"] # "COMPLETED"
                   \/ orders' = orders ]_vars

\* a batch whose first record names a missing order and whose second one
\* succeeded: the response names the first only
C29_Witness ==
    /\ ow.pc = "returned"
    /\ Len(ow.Records) = 2
    /\ ow.log = <<"Order not found", "completed">>
    /\ ow.response = [batchItemFailures |-> <<[itemIdentifier |-> <<"m", 1>>]>>]
    /\ orders["o1"]["status"] = "COMPLETED"


\* a request the trigger accepts: limit is an integer in 1..100 (10 when
\* absent) and resource is one of the five (posts when absent)
ValidTrigger(params) ==
    /\ int(Get(params, "limit", [digits |-> 10])).ok
    /\ int(Get(params, "limit", [digits |-> 10])).value \in 1..100
    /\ Get(params, "resource", "posts") \in valid_resources

\* a step that starts an execution: from no running execution to a fresh one
ExecutionStarted ==
    /\ sfn.state \notin {"SyncThirdPartyTask", "CheckSyncSuccess",
                         "IncrementAttempt", "CheckRetryLimit", "WaitBeforeRetry"}
    /\ sfn'.state = "SyncThirdPartyTask"

RequestedInput(params) ==
    [resource_type |-> Get(params, "resource", "posts"),
     limit |-> int(Get(params, "limit", [digits |-> 10])).value,
     attempt |-> 1]

\* C30 as stated: a trigger call with invalid input answers 400 and starts
\* nothing; one with valid input starts an execution with the requested
\* resource_type and limit and attempt = 1, and answers 202.
C30_ValidInputStartsExecution ==
    [][ (trig' # trig \/ ExecutionStarted) =>
          IF ValidTrigger(trig'.params)
          THEN /\ trig'.statusCode = 202
               /\ ExecutionStarted
               /\ sfn'.input = RequestedInput(trig'.params)
          ELSE /\ trig'.statusCode = 400
               /\ sfn' = sfn ]_vars

\* C30 (amended): invalid input answers 400 and starts nothing; valid input
\* either starts one execution with the requested resource_type and limit
\* and attempt = 1 and answers 202, or, when start_execution raises, starts
\* nothing and answers 500. An execution is started by no other call.
C30_TriggerStartsOnlyValid ==
    [][ (trig' # trig \/ ExecutionStarted) =>
          IF ValidTrigger(trig'.params)
          THEN \/ /\ trig'.statusCode = 202
                  /\ ExecutionStarted
                  /\ sfn'.input = RequestedInput(trig'.params)
                  /\ sfn'.invocations = <<>>
               \/ /\ trig'.statusCode = 500
                  /\ sfn' = sfn
          ELSE /\ trig'.statusCode = 400
               /\ sfn' = sfn ]_vars

\* a valid request answered 500 after an earlier execution ended: nothing
\* was started
C30_Witness ==
    /\ trig.statusCode = 500
    /\ trig.params = [resource |-> "todos", limit |-> [digits |-> 100]]
    /\ sfn.state = "SyncSucceeded"
    /\ sfn.input["resource_type"] = "posts"

====
